---- MODULE Spec2Model ----
(***************************************************************************)
(* Model of the two fixture generators create_test_files.py and            *)
(* generate_test_files.py: a run creates test-files/, builds the in-memory *)
(* record set, runs each format emitter inside its own try/except and      *)
(* lists the directory.  The environment (initial directory, installed     *)
(* libraries, random draws, I/O and serialization failures) is chosen      *)
(* nondeterministically.                                                   *)
(***************************************************************************)
EXTENDS Integers, Sequences, FiniteSets, TLC

VARIABLES script, libs, pc, dirExists, fs, fs0, data, status, listed

vars == <<script, libs, pc, dirExists, fs, fs0, data, status, listed>>

(* ---------------- bounds ---------------- *)

\* number of records (range(1, 101) in both scripts, scaled down)
N == 2

\* a random call returns the quantile u/MaxDraw of its range, u in 0..MaxDraw
MaxDraw == 1

DrawLevels == 0..MaxDraw

(* ---------------- program constants ---------------- *)

departments == <<"Engineering", "Marketing", "Sales", "HR">>

\* datetime(2020, 1, 1) as a day ordinal: day 0 is 2020-01-01
start_date == 0

EpochYear == 2020

AgeLow == 18
AgeHigh == 80
SalaryLow == 30000
SalaryHigh == 150000

FieldNames == <<"id", "name", "age", "salary", "department", "is_active", "join_date">>

Fields == {FieldNames[j] : j \in 1..Len(FieldNames)}

Scripts == {"create", "generate"}

\* emitters of each script, in program order
CreateEmitters == <<"jsonl", "ndjson", "csv", "json">>
GenEmitters == <<"parquet", "jsonl", "csv", "arrow", "avro">>

Emitters(s) == IF s = "create" THEN CreateEmitters ELSE GenEmitters

EmitterSet(s) == {Emitters(s)[j] : j \in 1..Len(Emitters(s))}

AllEmitters == EmitterSet("create") \cup EmitterSet("generate")

\* the emitter e writes test-files/sample.<e>; a name is <<stem, extension>>
Path(e) == <<"sample", e>>

\* names in test-files/: the sample.<ext> outputs and one unrelated file
Unrelated == <<"notes", "txt">>
FileNames == {Path(e) : e \in AllEmitters} \cup {Unrelated}

Ext(f) == f[2]

OwnOutputs(s) == {Path(e) : e \in EmitterSet(s)}

NoFile == [absent |-> TRUE]

\* extensions the final listing keeps (str.endswith of the tuple)
ListedExts(s) ==
  IF s = "create" THEN {"jsonl", "ndjson", "csv", "json"}
  ELSE {"parquet", "jsonl", "csv", "arrow", "avro"}

\* optional libraries; pandas (with numpy) is imported unconditionally
Libraries == {"pandas", "pyarrow", "fastparquet", "fastavro"}

(* ---------------- calendar ---------------- *)

\* month lengths of 2020 (a leap year)
MonthDays == <<31, 29, 31, 30, 31, 30, 31, 31, 30, 31, 30, 31>>

RECURSIVE DaysBeforeMonth(_)
DaysBeforeMonth(m) == IF m = 1 THEN 0 ELSE DaysBeforeMonth(m - 1) + MonthDays[m - 1]

RECURSIVE MonthOf(_, _)
MonthOf(day, m) == IF day < MonthDays[m] THEN m ELSE MonthOf(day - MonthDays[m], m + 1)

\* datetime.isoformat() / Timestamp.isoformat(): "YYYY-MM-DDT00:00:00"
isoformat(day) ==
  LET m == MonthOf(day, 1)
  IN [y |-> EpochYear, m |-> m, d |-> day - DaysBeforeMonth(m) + 1, time |-> TRUE]

\* pandas' CSV rendering of a midnight-only datetime column: "YYYY-MM-DD"
CsvDate(day) == [isoformat(day) EXCEPT !.time = FALSE]

\* reading a rendered date back to its day ordinal
ParseDate(s) == DaysBeforeMonth(s.m) + s.d - 1

(* ---------------- random sources ---------------- *)

\* the quantile u/MaxDraw of the integers lo..hi
Quantile(lo, hi, u) == lo + (u * (hi - lo)) \div MaxDraw

\* random.randint(a, b): both endpoints included
randint(a, b, u) == Quantile(a, b, u)

\* numpy.random.randint(low, high): high excluded
np_randint(low, high, u) == Quantile(low, high - 1, u)

\* random.choice / numpy.random.choice
choice(seq, u) == seq[Quantile(1, Len(seq), u)]

(* ---------------- Dataset Builder ---------------- *)

\* range starting one late
rangeFromNext(a, b) == [j \in 1..(b - a) |-> a + j]

\* range(a, b) as a sequence
range(a, b) == [j \in 1..(b - a) |-> a + j - 1]

Name(i) == <<"Person_", i>>

\* create_test_files.py: one iteration of the record loop
CreateRecord(i, u) ==
  [id |-> i,
   name |-> Name(i),
   age |-> randint(AgeLow, AgeHigh, u),
   salary |-> randint(SalaryLow, SalaryHigh, u),
   department |-> choice(departments, u),
   is_active |-> choice(<<TRUE, FALSE>>, u),
   join_date |-> isoformat(start_date + i)]

\* a pandas Timestamp at midnight of the day with the given ordinal
Timestamp(day) == [ordinal |-> day]

\* pd.date_range('2020-01-01', periods=n, freq='D')
date_range(start, periods) == [j \in 1..periods |-> Timestamp(start + (j - 1))]

\* generate_test_files.py: the DataFrame built from the column dict
GenFrame(us) ==
  LET ids == range(1, N + 1)
      dates == date_range(start_date, N)
  IN [j \in 1..N |->
        [id |-> ids[j],
         name |-> Name(ids[j]),
         age |-> np_randint(AgeLow, AgeHigh, us[j]),
         salary |-> np_randint(SalaryLow, SalaryHigh, us[j]),
         department |-> choice(departments, us[j]),
         is_active |-> choice(<<TRUE, FALSE>>, us[j]),
         join_date |-> dates[j]]]

(* ---------------- file contents ---------------- *)

\* str(bool) as interpolated by an f-string and as written by DataFrame.to_csv
PyStr(b) == IF b THEN "True" ELSE "False"

\* json.dumps of a bool
JsonBool(b) == IF b THEN "true" ELSE "false"

\* json.dumps(record): the 7 keys, booleans as JSON literals
JsonObject(rec) == [rec EXCEPT !.is_active = JsonBool(rec.is_active)]

\* create_test_files.py, CSV line: the comma-joined f-string
CreateCsvLine(rec) ==
  <<rec.id, rec.name, rec.age, rec.salary, rec.department, PyStr(rec.is_active), rec.join_date>>

\* generate_test_files.py, row.to_dict() followed by the join_date rewrite;
\* the dict is a copy, the frame's row is not touched
GenRowDict(row) == [row EXCEPT !.join_date = isoformat(row.join_date.ordinal)]

\* one line of DataFrame.to_csv(index=False)
GenCsvLine(row) ==
  <<row.id, row.name, row.age, row.salary, row.department, PyStr(row.is_active),
    CsvDate(row.join_date.ordinal)>>

Map(F(_), seq) == [j \in 1..Len(seq) |-> F(seq[j])]

\* the rows an emitter of a script serialises from the record set
Rows(s, e, d) ==
  IF s = "create"
  THEN IF e = "csv" THEN Map(CreateCsvLine, d) ELSE Map(JsonObject, d)
  ELSE CASE e = "jsonl" -> Map(LAMBDA r : JsonObject(GenRowDict(r)), d)
         [] e = "csv" -> Map(GenCsvLine, d)
         [] e = "avro" -> Map(GenRowDict, d)
         [] OTHER -> d

\* the header line (CSV only)
Header(e) == IF e = "csv" THEN FieldNames ELSE <<>>

\* a writer that loses the last row it was given
ContentOffByOne(s, e, d, k, whole) ==
  [header |-> Header(e),
   rows |-> SubSeq(Rows(s, e, d), 1, IF k > 0 THEN k - 1 ELSE 0),
   whole |-> whole]

\* a file after k rows were written; whole = the writer finished and closed it
Content(s, e, d, k, whole) ==
  [header |-> Header(e), rows |-> SubSeq(Rows(s, e, d), 1, k), whole |-> whole]

Complete(s, e, d) == Content(s, e, d, Len(d), TRUE)

(* ---------------- reading files back ---------------- *)

ParseBool(t) == t \in {"True", "true"}

\* a CSV line zipped with the header
CsvRecord(header, line) ==
  [f \in {header[j] : j \in 1..Len(header)} |->
     line[CHOOSE j \in 1..Len(header) : header[j] = f]]

\* formats that keep typed columns: dates and booleans are stored natively
NativeDates == {"parquet", "arrow"}
NativeBools == {"parquet", "arrow", "avro"}

\* the records a file holds, dates as day ordinals and booleans as booleans
Parse(fmt, c) ==
  LET recs == IF fmt = "csv" THEN Map(LAMBDA l : CsvRecord(c.header, l), c.rows) ELSE c.rows
      Norm(r) ==
        [r EXCEPT !.is_active = IF fmt \in NativeBools THEN r.is_active
                                ELSE ParseBool(r.is_active),
                  !.join_date = IF fmt \in NativeDates THEN r.join_date.ordinal
                                ELSE ParseDate(r.join_date)]
  IN Map(Norm, recs)

\* the in-memory records in the same normal form (create_test_files.py keeps
\* join_date as the ISO string, generate_test_files.py as a Timestamp)
Canon(s, d) ==
  Map(LAMBDA r : [r EXCEPT !.join_date = IF s = "create" THEN ParseDate(r.join_date)
                                         ELSE r.join_date.ordinal], d)

\* the field names of the records of a file
RecordFields(fmt, c) ==
  IF fmt = "csv" THEN {c.header[j] : j \in 1..Len(c.header)}
  ELSE UNION {DOMAIN c.rows[j] : j \in 1..Len(c.rows)}

(* ---------------- exceptions ---------------- *)

\* the exception class raised by each kind of failure
ExceptionClass(kind) ==
  CASE kind = "io" -> "OSError"
    [] kind = "dep" -> "ImportError"
    [] kind = "ser" -> "TypeError"

\* an except clause naming class cls catches an exception of class raised
Catches(cls, raised) == cls = "Exception" \/ cls = raised

\* try blocks that handle I/O errors only
HandlersNarrow(s, e) ==
  IF s = "generate" /\ e \in {"arrow", "avro"}
  THEN <<[cls |-> "ImportError", prints |-> "skipped"],
         [cls |-> "OSError", prints |-> "failed"]>>
  ELSE <<[cls |-> "OSError", prints |-> "failed"]>>

\* the except clauses of each emitter's try block, in order, with the status
\* line each one prints
Handlers(s, e) ==
  IF s = "generate" /\ e \in {"arrow", "avro"}
  THEN <<[cls |-> "ImportError", prints |-> "skipped"],
         [cls |-> "Exception", prints |-> "failed"]>>
  ELSE <<[cls |-> "Exception", prints |-> "failed"]>>

\* the status printed for a failure of the given kind: that of the first
\* matching clause, "uncaught" when none matches
RECURSIVE Handle(_, _)
Handle(hs, kind) ==
  IF hs = <<>> THEN "uncaught"
  ELSE IF Catches(Head(hs).cls, ExceptionClass(kind)) THEN Head(hs).prints
  ELSE Handle(Tail(hs), kind)

(* ---------------- emitters ---------------- *)

\* the library an emitter needs; pandas picks pyarrow, then fastparquet
Available(e, installed) ==
  CASE e = "parquet" -> "pyarrow" \in installed \/ "fastparquet" \in installed
    [] e = "arrow" -> "pyarrow" \in installed
    [] e = "avro" -> "fastavro" \in installed
    [] OTHER -> TRUE

\* writers that convert the whole record set before they open the file
ConvertsFirst == {"parquet", "arrow"}

\* what can happen inside an emitter's try block: the write completes, open()
\* raises, a write raises after k rows, or row k+1 cannot be serialised
Outcomes(e) ==
  {[kind |-> "ok", opened |-> TRUE, k |-> N], [kind |-> "io", opened |-> FALSE, k |-> 0]}
    \cup (IF e \in ConvertsFirst
          THEN {[kind |-> "io", opened |-> TRUE, k |-> 0],
                [kind |-> "ser", opened |-> FALSE, k |-> 0]}
          ELSE {[kind |-> kd, opened |-> TRUE, k |-> k] : kd \in {"io", "ser"}, k \in 0..(N - 1)})

\* an emitter that opens (and truncates) its file before anything else
WrittenAlwaysOpens(files, s, e, d, out) ==
  [files EXCEPT ![Path(e)] = Content(s, e, d, out.k, out.kind = "ok")]

\* the directory after the emitter's writes: open(path, 'w') truncates, the
\* rows written so far stay in the file
Written(files, s, e, d, out) ==
  IF out.opened
  THEN [files EXCEPT ![Path(e)] = Content(s, e, d, out.k, out.kind = "ok")]
  ELSE files

\* the per-row join_date rewrite reaching the record set itself
KeptAliased(s, e, d) ==
  IF s = "generate" /\ e \in {"jsonl", "avro"} THEN Map(GenRowDict, d) ELSE d

\* the record set after an emitter ran: the emitters read it, and the
\* per-row dicts they rewrite are copies (row.to_dict()), so it is the same
Kept(s, e, d) == d

\* where control goes after emitter e: the next emitter, then the listing
After(s, e) ==
  LET j == CHOOSE j \in 1..Len(Emitters(s)) : Emitters(s)[j] = e
  IN IF j < Len(Emitters(s)) THEN Emitters(s)[j + 1] ELSE "listing"

\* one emitter: its try block and its except clauses
Emit(s, e) ==
  /\ script = s
  /\ pc = e
  /\ \E out \in (IF Available(e, libs) THEN Outcomes(e)
                 ELSE {[kind |-> "dep", opened |-> FALSE, k |-> 0]}) :
       LET printed == IF out.kind = "ok" THEN "generated" ELSE Handle(Handlers(s, e), out.kind)
       IN /\ fs' = Written(fs, s, e, data, out)
          /\ status' = [status EXCEPT ![e] = [printed |-> printed, kind |-> out.kind]]
          /\ pc' = IF printed = "uncaught" THEN "crashed" ELSE After(s, e)
          /\ data' = Kept(s, e, data)
  /\ UNCHANGED <<script, libs, dirExists, fs0, listed>>

CreateJsonl == Emit("create", "jsonl")
CreateNdjson == Emit("create", "ndjson")
CreateCsv == Emit("create", "csv")
CreateJson == Emit("create", "json")
GenParquet == Emit("generate", "parquet")
GenJsonl == Emit("generate", "jsonl")
GenCsv == Emit("generate", "csv")
GenArrow == Emit("generate", "arrow")
GenAvro == Emit("generate", "avro")

(* ---------------- the rest of the run ---------------- *)

\* import pandas / numpy at the top of generate_test_files.py
Import ==
  /\ pc = "import"
  /\ pc' = IF "pandas" \in libs THEN "makedirs" ELSE "crashed"
  /\ UNCHANGED <<script, libs, dirExists, fs, fs0, data, status, listed>>

\* a directory creation that starts from an empty directory every time
makedirsClean(exists, files, creatable) ==
  IF exists \/ creatable
  THEN [exists |-> TRUE, files |-> [f \in DOMAIN files |-> [absent |-> TRUE]], raised |-> FALSE]
  ELSE [exists |-> FALSE, files |-> files, raised |-> TRUE]

\* os.makedirs(path, exist_ok=True): an existing directory is left as it is,
\* a missing one is created unless the parent refuses (creatable = FALSE)
makedirs(exists, files, creatable) ==
  IF exists THEN [exists |-> TRUE, files |-> files, raised |-> FALSE]
  ELSE IF creatable THEN [exists |-> TRUE, files |-> files, raised |-> FALSE]
  ELSE [exists |-> FALSE, files |-> files, raised |-> TRUE]

MakeDirs ==
  /\ pc = "makedirs"
  /\ \E creatable \in BOOLEAN :
       LET r == makedirs(dirExists, fs, creatable)
       IN /\ dirExists' = r.exists
          /\ fs' = r.files
          /\ pc' = IF r.raised THEN "crashed" ELSE "build"
  /\ UNCHANGED <<script, libs, fs0, data, status, listed>>

\* create_test_files.py: one iteration of "for i in range(1, 101)"
BuildRecord ==
  /\ script = "create"
  /\ pc = "build"
  /\ Len(data) < N
  /\ \E u \in DrawLevels :
       data' = Append(data, CreateRecord(range(1, N + 1)[Len(data) + 1], u))
  /\ pc' = IF Len(data') = N THEN Emitters(script)[1] ELSE "build"
  /\ UNCHANGED <<script, libs, dirExists, fs, fs0, status, listed>>

\* generate_test_files.py: data = {...}; df = pd.DataFrame(data)
BuildFrame ==
  /\ script = "generate"
  /\ pc = "build"
  /\ \E us \in [1..N -> DrawLevels] : data' = GenFrame(us)
  /\ pc' = Emitters(script)[1]
  /\ UNCHANGED <<script, libs, dirExists, fs, fs0, status, listed>>

\* the final listing: os.listdir raises when the directory cannot be read
Listing ==
  /\ pc = "listing"
  /\ \E readable \in BOOLEAN :
       IF readable
       THEN /\ listed' = {f \in FileNames : fs[f] # NoFile /\ Ext(f) \in ListedExts(script)}
            /\ pc' = "done"
       ELSE /\ listed' = listed
            /\ pc' = "crashed"
  /\ UNCHANGED <<script, libs, dirExists, fs, fs0, data, status>>

\* the process exit status once the script has ended
ExitStatus == IF pc = "done" THEN 0 ELSE 1

(* ---------------- initial states ---------------- *)

EmptyDir == [f \in FileNames |-> NoFile]

\* the record set of an earlier run (every draw at its lowest value)
OldData(s) ==
  IF s = "create" THEN [j \in 1..N |-> CreateRecord(range(1, N + 1)[j], 0)]
  ELSE GenFrame([j \in 1..N |-> 0])

\* test-files/ as an earlier, fully successful run of the script left it,
\* next to a file the scripts do not know
Populated(s) ==
  [f \in FileNames |->
     IF f = Unrelated THEN [header |-> <<>>, rows |-> <<>>, whole |-> TRUE]
     ELSE IF f \in OwnOutputs(s) THEN Complete(s, Ext(f), OldData(s))
     ELSE NoFile]

Init ==
  /\ script \in Scripts
  /\ libs \in (IF script = "create" THEN {{}} ELSE SUBSET Libraries)
  /\ pc = IF script = "create" THEN "makedirs" ELSE "import"
  /\ dirExists \in BOOLEAN
  /\ fs \in (IF dirExists THEN {EmptyDir, Populated(script)} ELSE {EmptyDir})
  /\ fs0 = [exists |-> dirExists, files |-> fs]
  /\ data = <<>>
  /\ status = [e \in EmitterSet(script) |-> [printed |-> "pending", kind |-> "none"]]
  /\ listed = {}

Next ==
  \/ Import
  \/ MakeDirs
  \/ BuildRecord
  \/ BuildFrame
  \/ CreateJsonl
  \/ CreateNdjson
  \/ CreateCsv
  \/ CreateJson
  \/ GenParquet
  \/ GenJsonl
  \/ GenCsv
  \/ GenArrow
  \/ GenAvro
  \/ Listing

Spec == Init /\ [][Next]_vars

(* ---------------- properties ---------------- *)

Ran(e) == status[e].printed # "pending"

Generated(e) == status[e].printed = "generated"

AllRan == \A e \in EmitterSet(script) : Ran(e)

\* the record set has been built
Built == pc \in AllEmitters \cup {"listing", "done"} \/ (pc = "crashed" /\ AllRan)

\* the emitters that come after e in program order
Later(s, e) ==
  {Emitters(s)[j] : j \in {j \in 1..Len(Emitters(s)) :
     \E i \in 1..(j - 1) : Emitters(s)[i] = e}}

Columnar == {"parquet", "arrow", "avro"}
TextFormats == {"csv", "json", "jsonl", "ndjson"}

\* C1: failure isolation: whatever an emitter's try block raises (I/O error,
\* missing library, serialization error), control goes on to the emitters
\* after it, so at the end every emitter has been attempted, and every
\* emitter that did not fail has written its complete file.
C1_FailureIsolation ==
  /\ \A e \in EmitterSet(script) :
       /\ Ran(e) => (pc \in Later(script, e) \cup {"listing", "done"} \/ AllRan)
       /\ Generated(e) => fs[Path(e)] = Complete(script, e, data)
  /\ pc \in {"listing", "done"} => AllRan

\* C1 witness: a run of generate_test_files.py that ended with one failure of
\* each kind and a later emitter that still wrote its complete file
C1_Witness ==
  /\ script = "generate" /\ pc = "done"
  /\ status["parquet"].kind = "dep"
  /\ status["jsonl"].kind = "ser"
  /\ status["csv"].kind = "io"
  /\ Generated("avro") /\ fs[Path("avro")] = Complete(script, "avro", data)

\* C2: the run always completes and exits with status 0, whatever fails
\* between directory creation and the final listing.
C2_AlwaysExitsZero == pc \in {"done", "crashed"} => ExitStatus = 0

\* C3: an emitter whose columnar library (Parquet, Arrow, Avro) is unavailable
\* ends as "skipped", never as "failed", and "skipped" is printed only for a
\* missing dependency.
C3_SkippedWhenUnavailable ==
  \A e \in EmitterSet(script) \cap Columnar :
    /\ (script = "generate" /\ Ran(e) /\ ~Available(e, libs)) => status[e].printed = "skipped"
    /\ status[e].printed = "skipped" => ~Available(e, libs)

\* every emitter whose library is there has written its file
OnlyDependenciesFailed ==
  \A e \in EmitterSet(script) : Available(e, libs) => Generated(e)

\* C4 (as stated): with a columnar dependency unavailable and nothing else
\* failing, the run ends with that format's file absent from test-files/
\* whatever the directory held before, the other formats present, exit 0.
C4_AbsentWhenUnavailable ==
  (script = "generate" /\ pc = "done" /\ OnlyDependenciesFailed) =>
    /\ ExitStatus = 0
    /\ \A e \in Columnar :
         IF Available(e, libs) THEN fs[Path(e)] # NoFile ELSE fs[Path(e)] = NoFile
    /\ \A e \in EmitterSet(script) \ Columnar : fs[Path(e)] # NoFile

\* C4 (amended): an emitter whose columnar dependency is unavailable leaves
\* its file as it was before the run (absent if it was absent, the earlier
\* run's file if there was one) and does not end the run; every emitter
\* that did not fail has written its file.
C4_UntouchedWhenUnavailable ==
  script = "generate" =>
    /\ \A e \in Columnar :
         (Ran(e) /\ ~Available(e, libs)) =>
           /\ fs[Path(e)] = fs0.files[Path(e)]
           /\ pc \in Later(script, e) \cup {"listing", "done"} \/ AllRan
    /\ \A e \in EmitterSet(script) : Generated(e) => fs[Path(e)] # NoFile

\* C4 witness: the directory held an earlier run's sample.parquet, no Parquet
\* engine is installed, the run ended and the old file is still there
C4_Witness ==
  /\ script = "generate" /\ pc = "done"
  /\ ~Available("parquet", libs)
  /\ fs0.files[Path("parquet")] # NoFile
  /\ fs[Path("parquet")] = fs0.files[Path("parquet")]
  /\ Generated("jsonl") /\ Generated("csv") /\ Generated("avro")

\* C5 (as stated): every CSV, JSON, JSONL or NDJSON file that exists after its
\* emitter ran holds exactly N records with exactly the 7 field names, also
\* when the emitter failed part-way.
C5_NeverPartial ==
  \A e \in EmitterSet(script) \cap TextFormats :
    (Ran(e) /\ fs[Path(e)] # NoFile) =>
      /\ Len(fs[Path(e)].rows) = N
      /\ RecordFields(e, fs[Path(e)]) = Fields

\* C5 (amended): every CSV, JSON, JSONL or NDJSON file written by an emitter
\* that reported success holds exactly N records, each with exactly the 7
\* field names.
C5_CompleteWhenGenerated ==
  \A e \in EmitterSet(script) \cap TextFormats :
    Generated(e) =>
      /\ fs[Path(e)] # NoFile
      /\ fs[Path(e)].whole
      /\ Len(fs[Path(e)].rows) = N
      /\ RecordFields(e, fs[Path(e)]) = Fields
      /\ \A j \in 1..N : DOMAIN Parse(e, fs[Path(e)])[j] = Fields

\* C5 witness: create_test_files.py wrote a complete sample.csv after its
\* JSONL emitter had failed part-way and left a shorter file
C5_Witness ==
  /\ script = "create" /\ pc = "done"
  /\ Generated("csv") /\ Len(fs[Path("csv")].rows) = N
  /\ status["jsonl"].printed = "failed"
  /\ fs[Path("jsonl")] # NoFile /\ Len(fs[Path("jsonl")].rows) < N

\* C6: a run changes only the files it emits: test-files/ exists before any
\* emitter runs (so before any file is written), and every file that is not
\* one of the script's own sample.<ext> outputs has the existence and the
\* contents it had before the run, whatever the emitters did.
C6_OnlyOwnOutputsChange ==
  /\ (pc \in AllEmitters \/ \E f \in FileNames : fs[f] # fs0.files[f]) => dirExists
  /\ \A f \in FileNames \ OwnOutputs(script) : fs[f] = fs0.files[f]

\* C6 witness: a run over a directory that held an unrelated file ended with
\* one emitter failed and one file rewritten, the unrelated file still there
C6_Witness ==
  /\ pc = "done"
  /\ fs0.files[Unrelated] # NoFile /\ fs[Unrelated] # NoFile
  /\ \E e \in EmitterSet(script) : status[e].printed = "failed"
  /\ \E e \in EmitterSet(script) : Generated(e) /\ fs[Path(e)] # fs0.files[Path(e)]

\* C7: the Dataset Builder produces N records whose ids are 1, 2, ..., N in
\* sequence order, the record at position k being named Person_k.
C7_IdsAreOneToN ==
  /\ \A k \in 1..Len(data) : data[k].id = k /\ data[k].name = <<"Person_", k>>
  /\ Built => Len(data) = N

\* C7 witness: a finished run holding the N records
C7_Witness == pc = "done" /\ Len(data) = N /\ data[N].id = N

\* C8: in each script record k has join_date = 2020-01-01 plus k days (record
\* #1: 2020-01-02), so both scripts give the same date to the same id.
C8_JoinDateIsEpochPlusId ==
  Built => \A k \in 1..Len(data) : Canon(script, data)[k].join_date = start_date + k

\* the Dataset Builder step of either script
Build == BuildRecord \/ BuildFrame

\* C9: age is drawn from exactly 18..80 and salary from exactly
\* 30000..150000: no record is outside these ranges, and the upper endpoints
\* 80 and 150000 can be generated.
C9_RangesWithEndpoints ==
  /\ \A k \in 1..Len(data) :
       /\ data[k].age \in AgeLow..AgeHigh
       /\ data[k].salary \in SalaryLow..SalaryHigh
  /\ pc = "build" =>
       /\ ENABLED (Build /\ \E k \in 1..Len(data') : data'[k].age = AgeHigh)
       /\ ENABLED (Build /\ \E k \in 1..Len(data') : data'[k].salary = SalaryHigh)

\* the files written in this run hold the records of the record set, in the
\* same order; sample.jsonl and sample.ndjson are then the same file
SameRecords ==
  /\ \A e \in EmitterSet(script) :
       Generated(e) => Parse(e, fs[Path(e)]) = Canon(script, data)
  /\ (script = "create" /\ Generated("jsonl") /\ Generated("ndjson")) =>
       fs[Path("jsonl")] = fs[Path("ndjson")]

\* C10: no emitter modifies the in-memory record set, so every file emitted
\* successfully in a run serialises the same N records in the same order,
\* and sample.jsonl and sample.ndjson of create_test_files.py are identical
\* whenever both emitters succeed.
C10_EmittersKeepRecords ==
  [][(pc \in AllEmitters => data' = data) /\ (Built' => SameRecords')]_vars

\* C10 witness: generate_test_files.py ended with the JSONL and Avro emitters
\* (the two that rewrite join_date per row) and the Parquet emitter all
\* successful, the record set still holding its Timestamps
C10_Witness ==
  /\ script = "generate" /\ pc = "done"
  /\ Generated("jsonl") /\ Generated("avro") /\ Generated("parquet")
  /\ Parse("avro", fs[Path("avro")]) = Canon(script, data)
  /\ data[N].join_date = Timestamp(start_date + N - 1)

====
